---- MODULE Spec2Model ----
(***************************************************************************)
(* A model of pratt.py: the tokenizer (TOKEN_SPLITTER / tokenize), the     *)
(* Lexer, the token classes with their binding powers and nud/led          *)
(* handlers, the recursive Parser.parse, and the module-level driver.      *)
(* A string is a sequence of one-character strings.  The Python call stack *)
(* is the sequence `stack`; every frame is a record tagged with the        *)
(* function it executes.                                                   *)
(***************************************************************************)
EXTENDS Integers, Sequences, FiniteSets

VARIABLES line, status, err, tokens, stack, ret, depth, printed

vars == <<line, status, err, tokens, stack, ret, depth, printed>>

(***************************************************************************)
(* Bounds of the checked inputs.                                           *)
(***************************************************************************)
MaxLineLen == 3
MaxToks == 4
MaxArgs == 3

(***************************************************************************)
(* Characters.                                                             *)
(***************************************************************************)
Digits == {"1", "2"}
Letters == {"a", "f"}
Punct == {",", "+", "-", "/", "*", "^"}
Parens == {"(", ")"}
Chars == Digits \cup Letters \cup Punct \cup Parens \cup {" "}

\* str.isdigit / str.isalpha on a non-empty string
IsDigitStr(s) == s # <<>> /\ \A i \in 1..Len(s) : s[i] \in Digits
IsAlphaStr(s) == s # <<>> /\ \A i \in 1..Len(s) : s[i] \in Letters

\* the regex class \w
IsWordChar(c) == c \in Digits \cup Letters \cup {"_"}

DigitVal(c) == IF c = "1" THEN 1 ELSE IF c = "2" THEN 2 ELSE 0

\* int(token) for a string of decimal digits
RECURSIVE IntOf(_)
IntOf(s) == IF s = <<>> THEN 0
            ELSE 10 * IntOf(SubSeq(s, 1, Len(s) - 1)) + DigitVal(s[Len(s)])

\* str.strip()
RECURSIVE Strip(_)
Strip(s) == IF s = <<>> THEN s
            ELSE IF s[1] = " " THEN Strip(Tail(s))
            ELSE IF s[Len(s)] = " " THEN Strip(SubSeq(s, 1, Len(s) - 1))
            ELSE s

(***************************************************************************)
(* re.split(TOKEN_SPLITTER, line) with TOKEN_SPLITTER = " |(\w+|\(|\))".   *)
(* The result alternates the text between two matches and the captured     *)
(* group of the match, which is None when the match is a space.            *)
(***************************************************************************)
Text(s) == [none |-> FALSE, text |-> s]
NoneFrag == [none |-> TRUE, text |-> <<>>]

\* first index after the greedy \w+ match starting at i
RECURSIVE WordEnd(_, _)
WordEnd(s, i) == IF i <= Len(s) /\ IsWordChar(s[i]) THEN WordEnd(s, i + 1) ELSE i

RECURSIVE SplitFrom(_, _, _, _)
SplitFrom(s, i, cur, out) ==
    IF i > Len(s) THEN Append(out, Text(cur))
    ELSE IF s[i] = " "
         THEN SplitFrom(s, i + 1, <<>>, out \o <<Text(cur), NoneFrag>>)
    ELSE IF IsWordChar(s[i])
         THEN SplitFrom(s, WordEnd(s, i), <<>>,
                        out \o <<Text(cur), Text(SubSeq(s, i, WordEnd(s, i) - 1))>>)
    ELSE IF s[i] \in Parens
         THEN SplitFrom(s, i + 1, <<>>, out \o <<Text(cur), Text(<<s[i]>>)>>)
    ELSE SplitFrom(s, i + 1, Append(cur, s[i]), out)

ReSplit(s) == SplitFrom(s, 1, <<>>, <<>>)

(***************************************************************************)
(* Tokens.  ConstToken.tok_map maps each registered symbol to its class.   *)
(***************************************************************************)
TokMap == [c \in Punct \cup Parens |->
             CASE c = ")" -> "RParen"
               [] c = "," -> "Comma"
               [] c = "(" -> "LParen"
               [] c = "+" -> "Plus"
               [] c = "-" -> "Minus"
               [] c = "/" -> "Div"
               [] c = "*" -> "Mult"
               [] c = "^" -> "Exp"]

ConstTok(c) == [type |-> TokMap[c], value |-> c]
NumTok(s) == [type |-> "Num", value |-> IntOf(s)]
IDTok(s) == [type |-> "ID", value |-> s]
EOFTok == [type |-> "EOF"]

\* the table with the binding powers of / and * exchanged
PrioSwapped(tok) == CASE tok.type = "LParen" -> 80
                      [] tok.type \in {"Plus", "Minus"} -> 10
                      [] tok.type = "Div" -> 30
                      [] tok.type = "Mult" -> 20
                      [] tok.type = "Exp" -> 40
                      [] OTHER -> 0

\* the class attribute prio
Prio(tok) == CASE tok.type = "LParen" -> 80
               [] tok.type \in {"Plus", "Minus"} -> 10
               [] tok.type = "Div" -> 20
               [] tok.type = "Mult" -> 30
               [] tok.type = "Exp" -> 40
               [] OTHER -> 0

\* list(tokenize(line)): the token list, or ok = FALSE when tokenize raises
\* ValueError("unrecognised token")
RECURSIVE TokenizeFrom(_, _, _)
TokenizeFrom(frags, i, out) ==
    IF i > Len(frags) THEN [ok |-> TRUE, toks |-> Append(out, EOFTok)]
    ELSE LET token == IF frags[i].none THEN <<>> ELSE Strip(frags[i].text)
         IN  IF frags[i].none \/ token = <<>>
             THEN TokenizeFrom(frags, i + 1, out)
             ELSE IF Len(token) = 1 /\ token[1] \in DOMAIN TokMap
             THEN TokenizeFrom(frags, i + 1, Append(out, ConstTok(token[1])))
             ELSE IF IsDigitStr(token)
             THEN TokenizeFrom(frags, i + 1, Append(out, NumTok(token)))
             ELSE IF IsAlphaStr(token)
             THEN TokenizeFrom(frags, i + 1, Append(out, IDTok(token)))
             ELSE [ok |-> FALSE, toks |-> <<>>]

tokenize(s) == TokenizeFrom(ReSplit(s), 1, <<>>)

(***************************************************************************)
(* Input lines: every string of at most MaxLineLen characters, and the     *)
(* expression shapes below written with and without separating spaces.     *)
(***************************************************************************)
LeafCh == {"1", "2", "a"}
OpCh == {"+", "-", "/", "*", "^"}

Spaced(s) == [i \in 1..(IF s = <<>> THEN 0 ELSE 2 * Len(s) - 1) |->
                IF i % 2 = 1 THEN s[(i + 1) \div 2] ELSE " "]

\* a1 , a2 , ... , an
RECURSIVE CommaList(_)
CommaList(as) == IF as = <<>> THEN <<>>
                 ELSE IF Len(as) = 1 THEN as
                 ELSE <<as[1], ",">> \o CommaList(Tail(as))

ArgLists == UNION {[1..n -> LeafCh] : n \in 0..MaxArgs}

CallShapes ==
    {<<f, "(">> \o CommaList(as) \o <<")">> : f \in Letters, as \in ArgLists}
    \cup {<<"f", "(">> \o CommaList(as) \o <<",", ")">> : as \in ArgLists}

InfixShapes ==
    {<<a, o1, b, o2, c>> : a \in LeafCh, o1 \in OpCh, b \in LeafCh, o2 \in OpCh, c \in LeafCh}

GroupShapes ==
    {<<"(", s[1], s[2], s[3], ")", s[4], s[5]>> : s \in InfixShapes}

UnaryShapes ==
    {<<u, a, o, b>> : u \in {"-", "+"}, a \in LeafCh, o \in OpCh, b \in LeafCh}

UnaryOperandShapes ==
    {<<a, o1, u, b, o2, c>> : a \in {"1"}, o1 \in OpCh, u \in {"-", "+"},
                               b \in LeafCh, o2 \in OpCh, c \in LeafCh}

Shapes == CallShapes \cup InfixShapes \cup GroupShapes \cup UnaryShapes
          \cup UnaryOperandShapes

Lines == UNION {[1..n -> Chars] : n \in 0..MaxLineLen}

\* every sequence of at most MaxToks one-character tokens
Words == {"1", "f", "(", ")", ",", "+", "-", "*", "^"}
TokenLines == UNION {[1..n -> Words] : n \in 0..MaxToks}

Inputs == Lines \cup Shapes \cup {Spaced(s) : s \in Shapes \cup TokenLines}

(***************************************************************************)
(* The state after the module is loaded with sys.argv[1] = line.           *)
(***************************************************************************)
NoRet == [py |-> "NoRet"]
NoTree == [py |-> "NoTree"]

Init == /\ line \in Inputs
        /\ status = "start"
        /\ err = "none"
        /\ tokens = <<>>
        /\ stack = <<>>
        /\ ret = NoRet
        /\ depth = 0
        /\ printed = NoTree

\* an uncaught exception ends the run
Raise(e) == /\ status' = "error"
            /\ err' = e
            /\ stack' = <<>>
            /\ ret' = NoRet

\* tokens = list(tokenize(sys.argv[1])); lexer = Lexer(tokens)
Tokenize ==
    /\ status = "start"
    /\ LET r == tokenize(line)
       IN  IF r.ok
           THEN /\ tokens' = r.toks
                /\ status' = "lexed"
                /\ UNCHANGED <<err, stack, ret>>
           ELSE /\ Raise("unrecognised token")
                /\ UNCHANGED tokens
    /\ UNCHANGED <<line, depth, printed>>

(***************************************************************************)
(* Python values: str and int leaves and the three node classes.           *)
(***************************************************************************)
PyNone == [py |-> "None"]
PyStr(s) == [py |-> "str", v |-> s]
PyInt(n) == [py |-> "int", v |-> n]
Node(func, l, r) == [py |-> "Node", operator |-> func, args |-> <<l, r>>]
UnitNode(op, param) == [py |-> "UnitNode", operator |-> op, param |-> param]
CallNode(name, args) == [py |-> "CallNode", func_name |-> name, args |-> args]

\* ID.handle_nul / Num.handle_nul: return self.value
LeafValue(tok) == IF tok.type = "ID" THEN PyStr(tok.value) ELSE PyInt(tok.value)

\* the function given to infix() / infixr() by each operator class
Func(tok) == CASE tok.type = "Plus" -> "add"
               [] tok.type = "Minus" -> "sub"
               [] tok.type = "Div" -> "ifloordiv"
               [] tok.type = "Mult" -> "mul"
               [] tok.type = "Exp" -> "pow"

\* a table in which ) and , inherit a prefix handler
NulOfLenient(tok) == CASE tok.type \in {"ID", "Num"} -> "value"
                       [] tok.type = "LParen" -> "LParen.handle_nul"
                       [] tok.type \in {"Plus", "RParen", "Comma"} -> "Plus.handle_nul"
                       [] tok.type = "Minus" -> "Minus.handle_nul"
                       [] OTHER -> "None"

\* the attribute handle_nul of a token
NulOf(tok) == CASE tok.type \in {"ID", "Num"} -> "value"
                [] tok.type = "LParen" -> "LParen.handle_nul"
                [] tok.type = "Plus" -> "Plus.handle_nul"
                [] tok.type = "Minus" -> "Minus.handle_nul"
                [] OTHER -> "None"

\* the attribute handle_left of a token
LedOf(tok) == CASE tok.type \in {"Plus", "Minus", "Div", "Mult"} -> "InfixOperator.handle_left"
                [] tok.type = "Exp" -> "InfixROperator.handle_left"
                [] tok.type = "LParen" -> "LParen.handle_left"
                [] OTHER -> "None"

\* the default of the parameter up_prio of parse
DefaultPrio == 0

\* a left-associative operator recursing like a right-associative one
InfixArgLower(tok) == Prio(tok) - 1

\* a prefix operator recursing with the default up_prio
NulArgDefault(tok) == DefaultPrio

\* the argument of the recursive parse call in each handler
InfixArg(tok) == Prio(tok)
InfixRArg(tok) == Prio(tok) - 1
NulArg(tok) == Prio(tok)

(***************************************************************************)
(* Lexer.                                                                  *)
(***************************************************************************)
\* a next that leaves the token in the list
LexerNextKeep(toks) == toks

\* an expect that accepts every token
ExpectAny(tok, type) == TRUE

LexerNext(toks) == Tail(toks)
LexerPeek(toks) == Head(toks)
\* isinstance(next_val, val_type) in Lexer.expect
ExpectOK(tok, type) == tok.type = type

\* the test of the while loop of Parser.parse
LoopContinues(tok, up_prio) == Prio(tok) > up_prio

(***************************************************************************)
(* Call stack.  A parse frame is at "enter" (line 192), "nud" (inside the  *)
(* call of line 194), "loop" (line 195), "led" (inside the call of line    *)
(* 196) or "exit" (line 197).  Its field ops records the binding powers of *)
(* the infix operator tokens consumed during the call outside any group or *)
(* argument list opened during the call.                                   *)
(***************************************************************************)
ParseFrame(p) == [fn |-> "parse", at |-> "enter", up_prio |-> p, left |-> PyNone, ops |-> {}]

Top == stack[Len(stack)]
Below == SubSeq(stack, 1, Len(stack) - 1)
SetTop(f) == [stack EXCEPT ![Len(stack)] = f]

Running == status = "running" /\ stack # <<>>
AtParse(label) == Running /\ ret = NoRet /\ Top.fn = "parse" /\ Top.at = label
Returned(fn) == Running /\ ret # NoRet /\ Top.fn = fn

\* the handler on top returns value to the parse frame under it, which
\* assigns it to left and goes to the loop test
ReturnToParse(value) ==
    LET caller == stack[Len(stack) - 1]
    IN  stack' = Append(SubSeq(stack, 1, Len(stack) - 2),
                        [caller EXCEPT !.left = value, !.at = "loop"])

\* index of the innermost LParen handler frame, 0 if there is none
Barrier == LET B == {i \in DOMAIN stack : stack[i].fn \in {"LParen.handle_nul", "LParen.handle_left"}}
           IN  IF B = {} THEN 0 ELSE CHOOSE i \in B : \A j \in B : j <= i

\* the stack after the parse frame on top consumed the infix token tok
Consumed(tok) ==
    [i \in DOMAIN stack |->
        IF i > Barrier /\ stack[i].fn = "parse"
        THEN [stack[i] EXCEPT !.ops = @ \cup {Prio(tok)},
                              !.at = IF i = Len(stack) THEN "led" ELSE @]
        ELSE stack[i]]

\* print(Parser().parse()): the call
DriverParse ==
    /\ status = "lexed"
    /\ status' = "running"
    /\ stack' = <<ParseFrame(DefaultPrio)>>
    /\ UNCHANGED <<line, err, tokens, ret, depth, printed>>

\* parse, lines 192-194, the token is an ID or a Num
NudLeaf ==
    /\ AtParse("enter")
    /\ tokens # <<>>
    /\ NulOf(LexerPeek(tokens)) = "value"
    /\ depth' = depth + 1
    /\ tokens' = LexerNext(tokens)
    /\ stack' = SetTop([Top EXCEPT !.left = LeafValue(LexerPeek(tokens)), !.at = "loop"])
    /\ UNCHANGED <<line, status, err, ret, printed>>

\* parse, lines 192-194, and LParen.handle_nul up to its call of parse
NudLParen ==
    /\ AtParse("enter")
    /\ tokens # <<>>
    /\ NulOf(LexerPeek(tokens)) = "LParen.handle_nul"
    /\ depth' = depth + 1
    /\ tokens' = LexerNext(tokens)
    /\ stack' = SetTop([Top EXCEPT !.at = "nud"])
                \o <<[fn |-> "LParen.handle_nul"], ParseFrame(DefaultPrio)>>
    /\ UNCHANGED <<line, status, err, ret, printed>>

\* parse, lines 192-194, and Plus.handle_nul up to its call of parse
NudPlus ==
    /\ AtParse("enter")
    /\ tokens # <<>>
    /\ NulOf(LexerPeek(tokens)) = "Plus.handle_nul"
    /\ depth' = depth + 1
    /\ tokens' = LexerNext(tokens)
    /\ stack' = SetTop([Top EXCEPT !.at = "nud"])
                \o <<[fn |-> "Plus.handle_nul"], ParseFrame(NulArg(LexerPeek(tokens)))>>
    /\ UNCHANGED <<line, status, err, ret, printed>>

\* parse, lines 192-194, and Minus.handle_nul up to its call of parse
NudMinus ==
    /\ AtParse("enter")
    /\ tokens # <<>>
    /\ NulOf(LexerPeek(tokens)) = "Minus.handle_nul"
    /\ depth' = depth + 1
    /\ tokens' = LexerNext(tokens)
    /\ stack' = SetTop([Top EXCEPT !.at = "nud"])
                \o <<[fn |-> "Minus.handle_nul"], ParseFrame(NulArg(LexerPeek(tokens)))>>
    /\ UNCHANGED <<line, status, err, ret, printed>>

\* parse, lines 192-194, raising: pop from an empty list, or the token's
\* handle_nul is None and calling it is a TypeError
NudRaise ==
    /\ AtParse("enter")
    /\ depth' = depth + 1
    /\ IF tokens = <<>>
       THEN Raise("IndexError") /\ UNCHANGED tokens
       ELSE /\ NulOf(LexerPeek(tokens)) = "None"
            /\ tokens' = LexerNext(tokens)
            /\ Raise("TypeError")
    /\ UNCHANGED <<line, printed>>

\* parse, line 195: the loop test fails
LoopExit ==
    /\ AtParse("loop")
    /\ tokens # <<>>
    /\ ~LoopContinues(LexerPeek(tokens), Top.up_prio)
    /\ stack' = SetTop([Top EXCEPT !.at = "exit"])
    /\ UNCHANGED <<line, status, err, tokens, ret, depth, printed>>

\* parse, lines 195-196, and InfixOperator.handle_left up to its call of parse
LedInfix ==
    /\ AtParse("loop")
    /\ tokens # <<>>
    /\ LoopContinues(LexerPeek(tokens), Top.up_prio)
    /\ LedOf(LexerPeek(tokens)) = "InfixOperator.handle_left"
    /\ tokens' = LexerNext(tokens)
    /\ stack' = Consumed(LexerPeek(tokens))
                \o <<[fn |-> "InfixOperator.handle_left",
                      func |-> Func(LexerPeek(tokens)), left |-> Top.left],
                     ParseFrame(InfixArg(LexerPeek(tokens)))>>
    /\ UNCHANGED <<line, status, err, ret, depth, printed>>

\* parse, lines 195-196, and InfixROperator.handle_left up to its call of parse
LedInfixR ==
    /\ AtParse("loop")
    /\ tokens # <<>>
    /\ LoopContinues(LexerPeek(tokens), Top.up_prio)
    /\ LedOf(LexerPeek(tokens)) = "InfixROperator.handle_left"
    /\ tokens' = LexerNext(tokens)
    /\ stack' = Consumed(LexerPeek(tokens))
                \o <<[fn |-> "InfixROperator.handle_left",
                      func |-> Func(LexerPeek(tokens)), left |-> Top.left],
                     ParseFrame(InfixRArg(LexerPeek(tokens)))>>
    /\ UNCHANGED <<line, status, err, ret, depth, printed>>

\* parse, lines 195-196, and LParen.handle_left up to the head of its loop
LedCall ==
    /\ AtParse("loop")
    /\ tokens # <<>>
    /\ LoopContinues(LexerPeek(tokens), Top.up_prio)
    /\ LedOf(LexerPeek(tokens)) = "LParen.handle_left"
    /\ Top.left.py = "str"
    /\ tokens' = LexerNext(tokens)
    /\ stack' = SetTop([Top EXCEPT !.at = "led"])
                \o <<[fn |-> "LParen.handle_left", left |-> Top.left, args |-> <<>>]>>
    /\ UNCHANGED <<line, status, err, ret, depth, printed>>

\* parse, lines 195-196, raising: peek of an empty list, led of a token
\* whose handle_left is None, or the assert of LParen.handle_left
LoopRaise ==
    /\ AtParse("loop")
    /\ IF tokens = <<>>
       THEN Raise("IndexError") /\ UNCHANGED tokens
       ELSE /\ LoopContinues(LexerPeek(tokens), Top.up_prio)
            /\ tokens' = LexerNext(tokens)
            /\ \/ /\ LedOf(LexerPeek(tokens)) = "None"
                  /\ Raise("ValueError")
               \/ /\ LedOf(LexerPeek(tokens)) = "LParen.handle_left"
                  /\ Top.left.py # "str"
                  /\ Raise("AssertionError")
    /\ UNCHANGED <<line, depth, printed>>

\* parse, lines 197-199
ParseReturn ==
    /\ AtParse("exit")
    /\ depth' = depth - 1
    /\ ret' = Top.left
    /\ stack' = Below
    /\ UNCHANGED <<line, status, err, tokens, printed>>

\* InfixOperator.handle_left, line 62, after parse returned
InfixReturn ==
    /\ Returned("InfixOperator.handle_left")
    /\ ReturnToParse(Node(Top.func, Top.left, ret))
    /\ ret' = NoRet
    /\ UNCHANGED <<line, status, err, tokens, depth, printed>>

\* InfixROperator.handle_left, line 69, after parse returned
InfixRReturn ==
    /\ Returned("InfixROperator.handle_left")
    /\ ReturnToParse(Node(Top.func, Top.left, ret))
    /\ ret' = NoRet
    /\ UNCHANGED <<line, status, err, tokens, depth, printed>>

\* Plus.handle_nul, line 146, after parse returned
PlusReturn ==
    /\ Returned("Plus.handle_nul")
    /\ ReturnToParse(ret)
    /\ ret' = NoRet
    /\ UNCHANGED <<line, status, err, tokens, depth, printed>>

\* Minus.handle_nul, line 154, after parse returned
MinusReturn ==
    /\ Returned("Minus.handle_nul")
    /\ ReturnToParse(UnitNode("-", ret))
    /\ ret' = NoRet
    /\ UNCHANGED <<line, status, err, tokens, depth, printed>>

\* LParen.handle_nul, lines 126-127: lexer.expect(RParen); return res
GroupReturn ==
    /\ Returned("LParen.handle_nul")
    /\ IF tokens = <<>>
       THEN Raise("IndexError") /\ UNCHANGED tokens
       ELSE /\ tokens' = LexerNext(tokens)
            /\ IF ExpectOK(LexerPeek(tokens), "RParen")
               THEN /\ ReturnToParse(ret)
                    /\ ret' = NoRet
                    /\ UNCHANGED <<status, err>>
               ELSE Raise("ValueError")
    /\ UNCHANGED <<line, depth, printed>>

\* LParen.handle_left, lines 136-137: args.append(...); lexer.expect(Comma)
CallArgReturn ==
    /\ Returned("LParen.handle_left")
    /\ IF tokens = <<>>
       THEN Raise("IndexError") /\ UNCHANGED tokens
       ELSE /\ tokens' = LexerNext(tokens)
            /\ IF ExpectOK(LexerPeek(tokens), "Comma")
               THEN /\ stack' = SetTop([Top EXCEPT !.args = Append(@, ret)])
                    /\ ret' = NoRet
                    /\ UNCHANGED <<status, err>>
               ELSE Raise("ValueError")
    /\ UNCHANGED <<line, depth, printed>>

AtCallLoop == Running /\ ret = NoRet /\ Top.fn = "LParen.handle_left"

\* LParen.handle_left, lines 133-135 and 138: the next token is RParen
CallLoopClose ==
    /\ AtCallLoop
    /\ tokens # <<>>
    /\ LexerPeek(tokens).type = "RParen"
    /\ tokens' = LexerNext(tokens)
    /\ ReturnToParse(CallNode(Top.left, Top.args))
    /\ UNCHANGED <<line, status, err, ret, depth, printed>>

\* LParen.handle_left, lines 133 and 136: the call of parse for an argument
CallLoopArg ==
    /\ AtCallLoop
    /\ IF tokens = <<>>
       THEN Raise("IndexError")
       ELSE /\ LexerPeek(tokens).type # "RParen"
            /\ stack' = Append(stack, ParseFrame(DefaultPrio))
            /\ UNCHANGED <<status, err, ret>>
    /\ UNCHANGED <<line, tokens, depth, printed>>

\* print(Parser().parse()): the print of the returned tree
DriverPrint ==
    /\ status = "running"
    /\ stack = <<>>
    /\ ret # NoRet
    /\ printed' = ret
    /\ ret' = NoRet
    /\ status' = "done"
    /\ UNCHANGED <<line, err, tokens, stack, depth>>

\* the steps of the parser and of the driver around it
Parsing ==
        \/ DriverParse
        \/ NudLeaf
        \/ NudLParen
        \/ NudPlus
        \/ NudMinus
        \/ NudRaise
        \/ LoopExit
        \/ LedInfix
        \/ LedInfixR
        \/ LedCall
        \/ LoopRaise
        \/ ParseReturn
        \/ InfixReturn
        \/ InfixRReturn
        \/ PlusReturn
        \/ MinusReturn
        \/ GroupReturn
        \/ CallArgReturn
        \/ CallLoopClose
        \/ CallLoopArg
        \/ DriverPrint

Next == Tokenize \/ Parsing

Spec == Init /\ [][Next]_vars

\* once the token list is built the interpreter runs the parser to its end
FairSpec == Spec /\ WF_vars(Parsing)

(***************************************************************************)
(* Vocabulary of the properties.                                           *)
(***************************************************************************)
Finished == status \in {"done", "error"}

\* the token stream the tokenizer produced for the input line
Lexed == tokenize(line).toks
LexedOK == tokenize(line).ok

Types(toks) == [i \in DOMAIN toks |-> toks[i].type]

IsLeafTok(t) == t.type \in {"ID", "Num"}
IsOpTok(t) == t.type \in {"Plus", "Minus", "Div", "Mult", "Exp"}

\* the binding power table of the specification
BindingPower(t) == CASE t.type \in {"Plus", "Minus"} -> 10
                     [] t.type = "Div" -> 20
                     [] t.type = "Mult" -> 30
                     [] t.type = "Exp" -> 40
                     [] t.type = "LParen" -> 80
                     [] OTHER -> 0

OpName(t) == CASE t.type = "Plus" -> "add"
               [] t.type = "Minus" -> "sub"
               [] t.type = "Div" -> "ifloordiv"
               [] t.type = "Mult" -> "mul"
               [] t.type = "Exp" -> "pow"

Leaf(t) == IF t.type = "ID" THEN PyStr(t.value) ELSE PyInt(t.value)
BinaryOp(t, l, r) == [py |-> "Node", operator |-> OpName(t), args |-> <<l, r>>]
UnaryOp(x) == [py |-> "UnitNode", operator |-> "-", param |-> x]
Call(t, as) == [py |-> "CallNode", func_name |-> PyStr(t.value), args |-> as]

\* the run succeeded and reported this tree
Reports(tree) == status = "done" /\ printed = tree

\* a op1 b op2 c
IsInfix3(t) == /\ Len(t) = 6
               /\ IsLeafTok(t[1]) /\ IsOpTok(t[2]) /\ IsLeafTok(t[3])
               /\ IsOpTok(t[4]) /\ IsLeafTok(t[5]) /\ t[6].type = "EOF"

\* ( a op1 b ) op2 c
IsGroup3(t) == /\ Len(t) = 8
               /\ t[1].type = "LParen" /\ IsLeafTok(t[2]) /\ IsOpTok(t[3])
               /\ IsLeafTok(t[4]) /\ t[5].type = "RParen" /\ IsOpTok(t[6])
               /\ IsLeafTok(t[7]) /\ t[8].type = "EOF"

\* f ( a1 , ... , an ) with n leaf arguments and no trailing comma
IsCall(t, n) == /\ Len(t) = (IF n = 0 THEN 4 ELSE 2 * n + 3)
                /\ t[1].type = "ID" /\ t[2].type = "LParen"
                /\ \A i \in 1..n : IsLeafTok(t[2 * i + 1])
                /\ \A i \in 1..(n - 1) : t[2 * i + 2].type = "Comma"
                /\ t[Len(t) - 1].type = "RParen" /\ t[Len(t)].type = "EOF"

\* C1: the token stream f ( a1 , ... , an ) without trailing comma parses
\* successfully to Call(f, [a1, ..., an]), arguments in input order; f ( )
\* parses to Call(f, []).
C1_CallParses ==
    (Finished /\ LexedOK) =>
        \A n \in 0..MaxArgs :
            IsCall(Lexed, n) =>
                Reports(Call(Lexed[1], [i \in 1..n |-> Leaf(Lexed[2 * i + 1])]))

\* C2: a lo b hi c parses to BinaryOp(lo, a, BinaryOp(hi, b, c)), a hi b lo c
\* parses to BinaryOp(lo, BinaryOp(hi, a, b), c), and ( a lo b ) hi c parses
\* to BinaryOp(hi, BinaryOp(lo, a, b), c), for bp(lo) < bp(hi) in the table.
C2_Precedence ==
    (Finished /\ LexedOK) =>
        LET t == Lexed
        IN  /\ (IsInfix3(t) /\ BindingPower(t[2]) < BindingPower(t[4])) =>
                    Reports(BinaryOp(t[2], Leaf(t[1]), BinaryOp(t[4], Leaf(t[3]), Leaf(t[5]))))
            /\ (IsInfix3(t) /\ BindingPower(t[2]) > BindingPower(t[4])) =>
                    Reports(BinaryOp(t[4], BinaryOp(t[2], Leaf(t[1]), Leaf(t[3])), Leaf(t[5])))
            /\ (IsGroup3(t) /\ BindingPower(t[3]) < BindingPower(t[6])) =>
                    Reports(BinaryOp(t[6], BinaryOp(t[3], Leaf(t[2]), Leaf(t[4])), Leaf(t[7])))

C2_Witness ==
    /\ status = "done"
    /\ LexedOK
    /\ IsGroup3(Lexed)
    /\ Lexed[3].type = "Plus" /\ Lexed[6].type = "Mult"
    /\ printed.py = "Node" /\ printed.operator = "mul"

\* C3: for two operators of the same binding power among + - / *,
\* a op1 b op2 c parses to BinaryOp(op2, BinaryOp(op1, a, b), c); a ^ b ^ c
\* parses to BinaryOp(power, a, BinaryOp(power, b, c)).
C3_Associativity ==
    (Finished /\ LexedOK) =>
        LET t == Lexed
        IN  /\ (IsInfix3(t) /\ BindingPower(t[2]) = BindingPower(t[4]) /\ t[2].type # "Exp") =>
                    Reports(BinaryOp(t[4], BinaryOp(t[2], Leaf(t[1]), Leaf(t[3])), Leaf(t[5])))
            /\ (IsInfix3(t) /\ t[2].type = "Exp" /\ t[4].type = "Exp") =>
                    Reports(BinaryOp(t[2], Leaf(t[1]), BinaryOp(t[4], Leaf(t[3]), Leaf(t[5]))))

C3_Witness ==
    /\ status = "done"
    /\ LexedOK
    /\ Types(Lexed) = <<"Num", "Minus", "Num", "Plus", "ID", "EOF">>
    /\ printed.py = "Node" /\ printed.operator = "add"
    /\ printed.args[1].py = "Node"

\* u a op b with u a prefix + or - and op an infix + or -
IsUnary(t, u) == /\ Len(t) = 5
                 /\ t[1].type = u /\ IsLeafTok(t[2])
                 /\ t[3].type \in {"Plus", "Minus"}
                 /\ IsLeafTok(t[4]) /\ t[5].type = "EOF"

\* number of UnitNode objects in a tree
RECURSIVE CountUnit(_)
RECURSIVE CountUnits(_)
CountUnit(tree) == CASE tree.py = "UnitNode" -> 1 + CountUnit(tree.param)
                     [] tree.py \in {"Node", "CallNode"} -> CountUnits(tree.args)
                     [] OTHER -> 0
CountUnits(trees) == IF trees = <<>> THEN 0
                     ELSE CountUnit(Head(trees)) + CountUnits(Tail(trees))

\* number of tokens of the input the parser has consumed
NConsumed == Len(Lexed) - Len(tokens)

\* the consumed - tokens that stand where a value is expected
PrefixMinus == {i \in 1..NConsumed :
                  /\ Lexed[i].type = "Minus"
                  /\ (i = 1 \/ Lexed[i - 1].type \notin {"ID", "Num", "RParen"})}

\* C4: - a op b with op in {+, -} parses to BinaryOp(op, UnaryOp(negate, a), b);
\* + a op b parses to BinaryOp(op, a, b) with no node for the prefix +; a
\* reported tree holds exactly one UnaryOp for every consumed - in prefix
\* position.
C4_UnaryMinus ==
    (Finished /\ LexedOK) =>
        LET t == Lexed
        IN  /\ IsUnary(t, "Minus") =>
                    Reports(BinaryOp(t[3], UnaryOp(Leaf(t[2])), Leaf(t[4])))
            /\ IsUnary(t, "Plus") =>
                    Reports(BinaryOp(t[3], Leaf(t[2]), Leaf(t[4])))
            /\ status = "done" => CountUnit(printed) = Cardinality(PrefixMinus)

C4_Witness ==
    /\ status = "done"
    /\ LexedOK
    /\ IsUnary(Lexed, "Minus")
    /\ printed.py = "Node"
    /\ printed.args[1].py = "UnitNode"

\* insert a space between every two adjacent punctuation characters
RECURSIVE SeparatePunct(_)
SeparatePunct(s) ==
    IF Len(s) < 2 THEN s
    ELSE IF s[1] \in Punct \cup Parens /\ s[2] \in Punct \cup Parens
         THEN <<s[1], " ">> \o SeparatePunct(Tail(s))
         ELSE <<s[1]>> \o SeparatePunct(Tail(s))

\* C5: the token sequence of a line is the same whether or not spaces
\* separate its adjacent punctuation characters.
C5_PunctuationAlone ==
    /\ status = "lexed" =>
           /\ tokenize(SeparatePunct(line)).ok
           /\ tokens = tokenize(SeparatePunct(line)).toks
    /\ err = "unrecognised token" => ~tokenize(SeparatePunct(line)).ok

\* a parse call is about to consume a ), a , or the end of input where a
\* value is expected
PrefixMisuse == /\ AtParse("enter")
                /\ tokens # <<>>
                /\ Head(tokens).type \in {"RParen", "Comma", "EOF"}

FailingExamples == {<<"Num", "Plus", "EOF">>, <<"EOF">>,
                    <<"LParen", "RParen", "EOF">>,
                    <<"Num", "Plus", "RParen", "EOF">>}

\* C6: when parse consumes ), , or end of input in prefix position the run
\* fails at once; after an error no step is taken, so no token is consumed
\* and no tree is reported; 1 +, the empty input, ( ) and 1 + ) fail.
C6_PrefixErrorFatal ==
    /\ [](status = "error" => printed = NoTree)
    /\ []((Finished /\ LexedOK /\ Types(Lexed) \in FailingExamples) => status = "error")
    /\ [][/\ status # "error"
          /\ PrefixMisuse => (status' = "error" /\ stack' = <<>> /\ printed' = NoTree)]_vars

C6_Witness ==
    /\ status = "error"
    /\ err = "TypeError"
    /\ LexedOK
    /\ NConsumed >= 3
    /\ Lexed[NConsumed].type = "RParen"

\* C7: when a parse call returns, the stream is not empty and its next
\* token has a binding power of at most the call's up_prio; a run that
\* succeeds leaves the end-of-input token in the stream, and the stream is
\* never read when empty.
C7_ParsePostcondition ==
    /\ AtParse("exit") =>
           /\ tokens # <<>>
           /\ BindingPower(Head(tokens)) <= Top.up_prio
    /\ (Running /\ ret # NoRet) => tokens # <<>>
    /\ status = "done" => (tokens # <<>> /\ tokens[Len(tokens)].type = "EOF")
    /\ err # "IndexError"

C7_Witness ==
    /\ AtParse("exit")
    /\ Len(stack) >= 3
    /\ Top.up_prio = 39
    /\ Head(tokens).type = "Mult"

\* C8: a run reports a tree only when the end-of-input token is the single
\* token left in the stream.
C8_TrailingTokensRejected ==
    status = "done" => (Len(tokens) = 1 /\ tokens[1].type = "EOF")

\* C9: when a parse(p) call returns, every infix operator token consumed
\* during the call outside the groups and argument lists opened during it
\* has a binding power greater than p.
C9_SpanBindsTighter ==
    AtParse("exit") => \A b \in Top.ops : b > Top.up_prio

\* C10: tokens are never pushed back, every parse call, every infix step and
\* every repetition of the argument loop consumes a token, and the parse of
\* every token list eventually reports a tree or fails.
C10_Terminates ==
    /\ [][status = "running" =>
            /\ tokens' = tokens \/ (tokens # <<>> /\ tokens' = Tail(tokens))
            /\ AtParse("enter") => Len(tokens') < Len(tokens)
            /\ (AtParse("loop") /\ Len(stack') > Len(stack)) => Len(tokens') < Len(tokens)
            /\ Returned("LParen.handle_left") => Len(tokens') < Len(tokens)]_vars
    /\ (status = "lexed" ~> Finished)

C10_Witness ==
    /\ AtCallLoop
    /\ Len(Top.args) >= 2
    /\ LexedOK
    /\ NConsumed >= 6
====
